---- MODULE Spec2Model ----
(***************************************************************************)
(* Model of the ESP32 status monitor backend (src/server.js).              *)
(*                                                                         *)
(* The server keeps two SQLite tables, status_updates (the Report log) and *)
(* devices (one DeviceState row per device_id), and reaches them through   *)
(* node-sqlite3.  The connection is never put in serialized mode outside   *)
(* the CREATE TABLE block (server.js:32-52), so every statement issued by  *)
(* a handler is an independent unit of work: statements run one at a time  *)
(* (each is atomic) but in no guaranteed order with respect to each other, *)
(* whatever the order they were issued in.  The model keeps the           *)
(* statements still in flight in `pending` and executes them one per step  *)
(* in any order.  A query's callback runs on the event loop once the query *)
(* has read the table; it decides from the rows read and the clock, writes *)
(* nothing itself and only issues further statements, so a query and its   *)
(* callback form one step.                                                 *)
(*                                                                         *)
(* Time is in milliseconds, as Date.now().  CURRENT_TIMESTAMP has a        *)
(* resolution of one second and is UTC; new Date(text) reads it in the     *)
(* server's time zone, which is UTC on the deployment target               *)
(* (server.js:2), so parsing multiplies the seconds by 1000.               *)
(***************************************************************************)
EXTENDS Integers, Sequences, FiniteSets, TLC

VARIABLES
    now,        \* wall clock of the server, ms
    nextSweep,  \* time from which the setInterval timer is due
    devices,    \* table devices: device_id -> row or NoRow
    updates,    \* table status_updates, in rowid order
    pending,    \* statements in flight
    log,        \* per device, the transition lines written to the console
                \* since the last "Received status update" line for it
    postCount,  \* number of POST /api/status requests received
    readCount,  \* number of GET /api/status requests received
    eval,       \* the evaluations made by the most recent evaluation point
    resp,       \* the most recent GET /api/status response
    hist,       \* the most recent GET /api/history response
    ack,        \* the most recent POST /api/status response
    stats,      \* the most recent GET /api/stats response
    running,    \* the Node.js process is alive
    faults      \* the storage operations that have failed so far

vars == <<now, nextSweep, devices, updates, pending, log, postCount,
          readCount, eval, resp, hist, ack, stats, running, faults>>

----------------------------------------------------------------------------
(* Bounds *)

MaxMinutes == 2     \* the clock runs over the minutes 0..MaxMinutes
MaxHalfSecs == 1    \* and over this many half seconds after each minute
MaxPosts == 2       \* POST /api/status requests
MaxReads == 1       \* GET /api/status requests
MaxRows == 3        \* rows of a history window drawn by InitHistory

MaxLatency == 500   \* ms a statement in flight may take to complete
MaxFaults == 1      \* storage operations that fail in a run

(* Program constants *)

MsPerSecond == 1000
SecondsPerMinute == 60
ThresholdMinutes == 1
SweepPeriod == 60000

Devices == {"esp32", "unknown"}
Absent == "<absent>"
NoRow == [status |-> "<none>"]
None == [path |-> "<none>", status_of |-> "<none>"]
NoHistory == [served |-> FALSE, code |-> 0, rows |-> <<>>, out |-> <<>>]
NoAck == [id |-> 0, code |-> 0]
NoStats == [code |-> 0]

\* instants the clock is observed at
Times == {m * 60000 + k * 500 : m \in 0..MaxMinutes, k \in 0..MaxHalfSecs}

\* request bodies.  A text field is its string, or Absent; a number or a
\* boolean field is <<v>>, or <<>> when the body does not have it.
BodyDeviceIds == {Absent, "esp32"}
BodyStatuses == {"online", "offline", "idle"}

\* a report as the device firmware sends it, every field present
Report(d, s) ==
    [device_id |-> d, status |-> s, uptime_seconds |-> <<5>>,
     ip_address |-> "10.0.0.2", rssi |-> <<-60>>, free_heap |-> <<1000>>,
     is_boot |-> <<FALSE>>, timestamp |-> <<7>>]

----------------------------------------------------------------------------
(* Storage and date helpers *)

\* SQLite CURRENT_TIMESTAMP: 'YYYY-MM-DD HH:MM:SS', whole seconds
CurrentTimestamp(t) == t \div MsPerSecond

\* new Date(text).getTime() for a text written by CURRENT_TIMESTAMP
DateParse(secs) == secs * MsPerSecond

\* v || d for a text field: an absent field and "" are falsy
OrText(v, d) == IF v = Absent \/ v = "" THEN d ELSE v

\* v || d for a number field: an absent field and 0 are falsy
OrNumber(v, d) == IF v = <<>> \/ v[1] = 0 THEN d ELSE v[1]

\* data.device_id || 'unknown'
DeviceIdOf(body) == OrText(body.device_id, "unknown")

\* a handler whose default status is 'offline'
StatusOfDefaultOffline(body) == OrText(body.status, "offline")

\* data.status || 'online'
StatusOf(body) == OrText(body.status, "online")

\* the parameters of stmt.run(...), server.js:65-74, at the time t of the
\* handler
ReportValues(body, t) ==
    [device_id |-> DeviceIdOf(body),
     status |-> StatusOf(body),
     uptime_seconds |-> OrNumber(body.uptime_seconds, 0),
     ip_address |-> OrText(body.ip_address, ""),
     rssi |-> OrNumber(body.rssi, 0),
     free_heap |-> OrNumber(body.free_heap, 0),
     is_boot |-> IF body.is_boot # <<>> /\ body.is_boot[1] THEN 1 ELSE 0,
     timestamp |-> OrNumber(body.timestamp, t)]

Known == {d \in Devices : devices[d] # NoRow}

\* one more transition line of a kind for a device
Logged(l, kind, devs) ==
    [d \in Devices |-> IF d \in devs
                       THEN [l[d] EXCEPT ![kind] = @ + 1]
                       ELSE l[d]]

----------------------------------------------------------------------------
(* Liveness evaluation *)

\* a read path that still calls a device online at exactly one minute
ReadIsOnlineAtThreshold(t, lastSeen) ==
    (t - lastSeen) <= ThresholdMinutes * SecondsPerMinute * MsPerSecond

\* read path: minutesSinceLastSeen < 1, with
\* minutesSinceLastSeen = (now - lastSeen) / 1000 / 60
ReadIsOnline(t, lastSeen) ==
    (t - lastSeen) < ThresholdMinutes * SecondsPerMinute * MsPerSecond

\* sweep path: minutesSinceLastSeen >= 1
SweepIsStale(t, lastSeen) ==
    (t - lastSeen) >= ThresholdMinutes * SecondsPerMinute * MsPerSecond

----------------------------------------------------------------------------
Init ==
    /\ now = 0
    /\ nextSweep = SweepPeriod
    /\ devices = [d \in Devices |-> NoRow]
    /\ updates = <<>>
    /\ pending = {}
    /\ log = [d \in Devices |-> [online |-> 0, offline |-> 0]]
    /\ postCount = 0
    /\ readCount = 0
    /\ eval = {}
    /\ resp = None
    /\ hist = NoHistory
    /\ ack = NoAck
    /\ stats = NoStats
    /\ running = TRUE
    /\ faults = {}

\* time passes; a statement in flight completes within the second or so
\* that the instants after a minute span, a quiet server may wait longer
Tick ==
    /\ \E t \in Times :
          /\ t > now
          /\ pending # {} => t - now <= MaxLatency
          /\ now' = t
    /\ UNCHANGED <<nextSweep, devices, updates, pending, log, postCount,
                   readCount, eval, resp, hist>>
    /\ UNCHANGED <<ack, stats, running, faults>>

----------------------------------------------------------------------------
(* POST /api/status, server.js:55-91 *)

\* the handler: logs the body, issues three statements, none awaited, and
\* responds
Post(body) ==
    /\ running
    /\ postCount < MaxPosts
    /\ LET r == postCount + 1
           dev == DeviceIdOf(body)
           st == StatusOf(body)
       IN /\ postCount' = r
          /\ log' = [log EXCEPT ![dev] = [online |-> 0, offline |-> 0]]
          /\ ack' = [id |-> r, code |-> 200, success |-> TRUE,
                     message |-> "Status received"]
          /\ pending' = pending \cup
                {[op |-> "insert", id |-> r, dev |-> dev, status |-> st,
                  values |-> ReportValues(body, now), body |-> body],
                 [op |-> "select", id |-> r, dev |-> dev,
                  was |-> devices[dev].status],
                 [op |-> "replace", id |-> r, dev |-> dev, status |-> st]}
    /\ UNCHANGED <<now, nextSweep, devices, updates, readCount, eval, resp, hist>>
    /\ UNCHANGED <<stats, running, faults>>

\* INSERT INTO status_updates ... (server_timestamp defaults to CURRENT_TIMESTAMP)
ExecInsert(o) ==
    /\ running
    /\ o \in pending /\ o.op = "insert"
    /\ updates' = Append(updates,
            [id |-> Len(updates) + 1, device_id |-> o.dev, status |-> o.status,
             uptime_seconds |-> o.values.uptime_seconds,
             ip_address |-> o.values.ip_address,
             rssi |-> o.values.rssi,
             free_heap |-> o.values.free_heap,
             is_boot |-> o.values.is_boot,
             timestamp |-> o.values.timestamp,
             server_timestamp |-> CurrentTimestamp(now),
             src |-> "report", body |-> o.body])
    /\ pending' = pending \ {o}
    /\ UNCHANGED <<now, nextSweep, devices, log, postCount, readCount,
                   eval, resp, hist>>
    /\ UNCHANGED <<ack, stats, running, faults>>

\* the condition of the "came back ONLINE" line
CameBackOnline(device) == device # NoRow /\ device.status = "offline"

\* SELECT status FROM devices WHERE device_id = ?, and its callback
ExecSelect(o) ==
    /\ running
    /\ o \in pending /\ o.op = "select"
    /\ LET device == devices[o.dev]
           logged == CameBackOnline(device)
       IN /\ log' = IF logged THEN Logged(log, "online", {o.dev}) ELSE log
          /\ eval' = {[path |-> "ingest", id |-> o.id, dev |-> o.dev,
                       stored |-> device.status, evaluated |-> "online",
                       logged |-> logged, was |-> o.was,
                       own |-> device # NoRow /\ device.by = o.id]}
    /\ pending' = pending \ {o}
    /\ UNCHANGED <<now, nextSweep, devices, updates, postCount, readCount,
                   resp, hist>>
    /\ UNCHANGED <<ack, stats, running, faults>>

\* INSERT OR REPLACE INTO devices (device_id, last_seen, status)
\* VALUES (?, CURRENT_TIMESTAMP, ?)
ExecReplace(o) ==
    /\ running
    /\ o \in pending /\ o.op = "replace"
    /\ devices' = [devices EXCEPT ![o.dev] =
            [last_seen |-> CurrentTimestamp(now), status |-> o.status,
             by |-> o.id, basis |-> -1]]
    /\ pending' = pending \ {o}
    /\ UNCHANGED <<now, nextSweep, updates, log, postCount, readCount,
                   eval, resp, hist>>
    /\ UNCHANGED <<ack, stats, running, faults>>

----------------------------------------------------------------------------
(* Statements shared by the read path and the sweep *)

\* an UPDATE that refreshes last_seen as well
ExecUpdateTouching(o) ==
    /\ running
    /\ o \in pending /\ o.op = "update"
    /\ devices' = IF devices[o.dev] = NoRow
                  THEN devices
                  ELSE [devices EXCEPT ![o.dev].status = "offline",
                                       ![o.dev].basis = o.basis,
                                       ![o.dev].last_seen =
                                            CurrentTimestamp(now)]
    /\ pending' = pending \ {o}
    /\ UNCHANGED <<now, nextSweep, updates, log, postCount, readCount,
                   eval, resp, hist>>
    /\ UNCHANGED <<ack, stats, running, faults>>

\* UPDATE devices SET status = 'offline' WHERE device_id = ?
ExecUpdate(o) ==
    /\ running
    /\ o \in pending /\ o.op = "update"
    /\ devices' = IF devices[o.dev] = NoRow
                  THEN devices
                  ELSE [devices EXCEPT ![o.dev].status = "offline",
                                       ![o.dev].basis = o.basis]
    /\ pending' = pending \ {o}
    /\ UNCHANGED <<now, nextSweep, updates, log, postCount, readCount,
                   eval, resp, hist>>
    /\ UNCHANGED <<ack, stats, running, faults>>

----------------------------------------------------------------------------
(* GET /api/status, server.js:94-136 *)

\* rows a query ORDER BY last_seen DESC LIMIT 1 may return
LatestDevices == {d \in Known : \A e \in Known :
                      devices[e].last_seen <= devices[d].last_seen}

\* Math.round(minutesSinceLastSeen * 10), in tenths of a minute
RoundTenths(ms) == (ms + 3000) \div 6000

\* the request arrives, SELECT * FROM devices ORDER BY last_seen DESC
\* LIMIT 1 reads the table and its callback evaluates the row, logs, and
\* issues the UPDATE and the query for the latest update
ReadQuery ==
    /\ running
    /\ readCount < MaxReads
    /\ readCount' = readCount + 1
    /\ IF Known = {}
       THEN /\ resp' = [path |-> "read", id |-> readCount + 1,
                        status_of |-> "nothing", code |-> 200,
                        status |-> "offline",
                        message |-> "No device data"]
            /\ UNCHANGED <<pending, log, eval>>
       ELSE /\ \E d \in LatestDevices :
              LET device == devices[d]
                  lastSeen == DateParse(device.last_seen)
                  isOnline == ReadIsOnline(now, lastSeen)
                  logged == ~isOnline /\ device.status = "online"
                  status == IF isOnline THEN "online" ELSE "offline"
              IN /\ log' = IF logged THEN Logged(log, "offline", {d}) ELSE log
                 /\ pending' = pending \cup
                      {[op |-> "latest", id |-> readCount + 1, dev |-> d,
                        status |-> status, stored |-> device.status,
                        last_seen |-> device.last_seen,
                        ms |-> now - lastSeen]}
                      \cup (IF logged
                            THEN {[op |-> "update", path |-> "read",
                                   id |-> readCount + 1, dev |-> d,
                                   basis |-> device.last_seen]}
                            ELSE {})
                 /\ eval' = {[path |-> "read", id |-> readCount + 1,
                              dev |-> d, stored |-> device.status,
                              evaluated |-> status, logged |-> logged,
                              was |-> device.status, own |-> FALSE]}
            /\ UNCHANGED resp
    /\ UNCHANGED <<now, nextSweep, devices, updates, postCount,
                   hist>>
    /\ UNCHANGED <<ack, stats, running, faults>>

\* ids of the rows a query ORDER BY server_timestamp DESC LIMIT 1 over the
\* device's updates may return; 0 stands for no row (null)
LatestUpdateIds(dev) ==
    LET mine == {i \in 1..Len(updates) : updates[i].device_id = dev}
    IN IF mine = {} THEN {0}
       ELSE {i \in mine : \A j \in mine :
                updates[j].server_timestamp <= updates[i].server_timestamp}

\* SELECT * FROM status_updates WHERE device_id = ? ORDER BY
\* server_timestamp DESC LIMIT 1, and the response
ExecLatest(o) ==
    /\ running
    /\ o \in pending /\ o.op = "latest"
    /\ \E i \in LatestUpdateIds(o.dev) :
          resp' = [path |-> "read", id |-> o.id, status_of |-> "device",
                   code |-> 200, device_id |-> o.dev,
                   status |-> o.status, last_seen |-> o.last_seen,
                   minutes_tenths |-> RoundTenths(o.ms),
                   latest_update |-> i, stored |-> o.stored, ms |-> o.ms]
    /\ pending' = pending \ {o}
    /\ UNCHANGED <<now, nextSweep, devices, updates, log, postCount,
                   readCount, eval, hist>>
    /\ UNCHANGED <<ack, stats, running, faults>>

----------------------------------------------------------------------------
(* The sweep, server.js:194-221 *)

\* a sweep that does not look at the stored status
SweepOfflineAnyStatus(snap, t) ==
    {d \in Devices : /\ snap[d] # NoRow
                     /\ SweepIsStale(t, DateParse(snap[d].last_seen))}

\* devices of a snapshot the sweep marks offline
SweepOffline(snap, t) ==
    {d \in Devices : /\ snap[d] # NoRow
                     /\ SweepIsStale(t, DateParse(snap[d].last_seen))
                     /\ snap[d].status = "online"}

\* the timer fires, SELECT * FROM devices reads the table and its callback
\* runs devices.forEach(...)
SweepQuery ==
    /\ running
    /\ now >= nextSweep
    /\ nextSweep' = now + SweepPeriod
    /\ LET off == SweepOffline(devices, now)
       IN /\ log' = Logged(log, "offline", off)
          /\ pending' = pending
                \cup {[op |-> "update", path |-> "sweep", id |-> now,
                       dev |-> d, basis |-> devices[d].last_seen] : d \in off}
                \cup {[op |-> "marker", id |-> now, dev |-> d] : d \in off}
          /\ eval' = {[path |-> "sweep", id |-> now, dev |-> d,
                       stored |-> devices[d].status,
                       evaluated |-> IF SweepIsStale(now,
                                          DateParse(devices[d].last_seen))
                                     THEN "offline" ELSE "online",
                       logged |-> d \in off, was |-> devices[d].status,
                       own |-> FALSE] : d \in Known}
    /\ UNCHANGED <<now, devices, updates, postCount, readCount, resp, hist>>
    /\ UNCHANGED <<ack, stats, running, faults>>

\* INSERT INTO status_updates (...) VALUES (?, 'offline', 0, '', 0, 0, 0, ?,
\* CURRENT_TIMESTAMP)
ExecMarker(o) ==
    /\ running
    /\ o \in pending /\ o.op = "marker"
    /\ updates' = Append(updates,
            [id |-> Len(updates) + 1, device_id |-> o.dev,
             status |-> "offline",
             uptime_seconds |-> 0, ip_address |-> "", rssi |-> 0,
             free_heap |-> 0, is_boot |-> 0, timestamp |-> o.id,
             server_timestamp |-> CurrentTimestamp(now),
             src |-> "sweep"])
    /\ pending' = pending \ {o}
    /\ UNCHANGED <<now, nextSweep, devices, log, postCount, readCount,
                   eval, resp, hist>>
    /\ UNCHANGED <<ack, stats, running, faults>>

----------------------------------------------------------------------------
Next ==
    \/ Tick
    \/ \E d \in BodyDeviceIds, s \in BodyStatuses :
          Post(Report(d, s))
    \/ \E o \in pending : ExecInsert(o)
    \/ \E o \in pending : ExecSelect(o)
    \/ \E o \in pending : ExecReplace(o)
    \/ \E o \in pending : ExecUpdate(o)
    \/ ReadQuery
    \/ \E o \in pending : ExecLatest(o)
    \/ SweepQuery
    \/ \E o \in pending : ExecMarker(o)

Spec == Init /\ [][Next]_vars

----------------------------------------------------------------------------
(* Exactly-once transitions *)

\* rows of status_updates that belong to a device, in rowid order
RowsOf(d) == SelectSeq(updates, LAMBDA r : r.device_id = d)

\* number of synthetic offline rows after the device's last real report
RECURSIVE TrailingMarkers(_)
TrailingMarkers(rows) ==
    IF rows = <<>> \/ rows[Len(rows)].src = "report"
    THEN 0
    ELSE 1 + TrailingMarkers(SubSeq(rows, 1, Len(rows) - 1))

\* C1: between two consecutive reports of a device at most one offline
\* transition is logged for it and at most one synthetic offline Report is
\* appended for it, whatever the interleaving of reads and sweep ticks.
C1_OfflineOncePerCrossing ==
    \A d \in Devices :
        /\ log[d].offline <= 1
        /\ TrailingMarkers(RowsOf(d)) <= 1

\* C2: at every evaluation point a transition line is logged if and only
\* if the evaluated status differs from the status stored at that moment.
C2_LoggedIffDiffers ==
    \A e \in eval :
        e.stored # NoRow.status => (e.logged <=> e.stored # e.evaluated)

\* C3: a device is never stored "offline" by an UPDATE that was decided on
\* a last_seen older than the one the row holds now.
C3_NoStaleOffline ==
    \A d \in Known :
        (devices[d].status = "offline" /\ devices[d].basis # -1)
            => devices[d].basis >= devices[d].last_seen

\* C4: when the DeviceState row holds what a report wrote, that report is
\* already in the Report log.
C4_ReportVisibleBeforeState ==
    \A d \in Known :
        devices[d].basis = -1 =>
            ~ \E o \in pending : o.op = "insert" /\ o.id = devices[d].by

----------------------------------------------------------------------------
(* Offline detection without reads *)

\* the server with no GET /api/status request at all
NextNoRead ==
    \/ Tick
    \/ \E d \in BodyDeviceIds, s \in BodyStatuses :
          Post(Report(d, s))
    \/ \E o \in pending : ExecInsert(o)
    \/ \E o \in pending : ExecSelect(o)
    \/ \E o \in pending : ExecReplace(o)
    \/ \E o \in pending : ExecUpdate(o)
    \/ SweepQuery
    \/ \E o \in pending : ExecMarker(o)

\* time passes, the statement queue drains and the interval timer fires
Fairness ==
    /\ WF_vars(Tick)
    /\ WF_vars(\E o \in pending : ExecInsert(o))
    /\ WF_vars(\E o \in pending : ExecSelect(o))
    /\ WF_vars(\E o \in pending : ExecReplace(o))
    /\ WF_vars(\E o \in pending : ExecUpdate(o))
    /\ WF_vars(\E o \in pending : ExecMarker(o))
    /\ WF_vars(SweepQuery)

SpecSweepOnly == Init /\ [][NextNoRead]_vars /\ Fairness

\* the device's last report is old enough for the clock of the model to
\* reach the instant it goes stale, and a sweep tick after it
InHorizon(d) ==
    /\ d \in Known
    /\ DateParse(devices[d].last_seen)
         + ThresholdMinutes * SecondsPerMinute * MsPerSecond
            <= MaxMinutes * SecondsPerMinute * MsPerSecond

\* the liveness claim as a temporal formula: every device whose last
\* report is within the horizon is eventually stored "offline" for good
EventuallyOffline ==
    \A d \in Devices : <>[](InHorizon(d) => devices[d].status = "offline")

\* the time of the most recent sweep tick (0 before the first)
LastSweep == nextSweep - SweepPeriod

\* C5: with no reads and the sweep timer firing, every device that has
\* reported and then stops reporting is eventually stored "offline",
\* whatever status its last report carried: once a sweep tick has run a
\* threshold or more after the device's last report and every statement
\* has completed, the device is stored "offline".
C5_OfflineAfterSweep ==
    \A d \in Known :
        (/\ pending = {}
         /\ LastSweep >= DateParse(devices[d].last_seen) + 60000)
            => devices[d].status = "offline"

----------------------------------------------------------------------------
(* One evaluator for both paths *)

\* the classification the design gives: online iff less than a minute old
Classify(ms) == IF ms < 60000 THEN "online" ELSE "offline"

----------------------------------------------------------------------------
(* The sweep marks a device once *)

\* the statements a sweep tick at time t issues for device d
SweepStatements(d, t) ==
    {[op |-> "update", path |-> "sweep", id |-> t, dev |-> d,
      basis |-> devices[d].last_seen],
     [op |-> "marker", id |-> t, dev |-> d]}

\* devices stored online whose last report is a minute old or more
StoredOnlineStale ==
    {d \in Known : /\ devices[d].status = "online"
                   /\ now - DateParse(devices[d].last_seen) >= 60000}

\* C7: a sweep tick that finds a device stored "online" with a last_seen a
\* threshold or more in the past issues exactly one UPDATE, which stores
\* "offline", and exactly one INSERT, which appends one synthetic offline
\* Report; a tick that finds no such device changes nothing, and a device
\* whose row holds a sweep's UPDATE (no report since) is no such device.
C7_SweepMarksOnce ==
    [][ /\ nextSweep' # nextSweep =>
            /\ pending' = pending \cup UNION {SweepStatements(d, now) :
                                                d \in StoredOnlineStale}
            /\ devices' = devices
            /\ updates' = updates
            /\ StoredOnlineStale = {} => (log' = log /\ pending' = pending)
            /\ \A d \in Known : devices[d].basis # -1 =>
                                    d \notin StoredOnlineStale
        /\ \A o \in pending \ pending' :
            /\ (o.op = "update" /\ o.path = "sweep") =>
                  /\ devices'[o.dev].status = "offline"
                  /\ \A d \in Devices \ {o.dev} : devices'[d] = devices[d]
                  /\ updates' = updates
            /\ o.op = "marker" =>
                  /\ Len(updates') = Len(updates) + 1
                  /\ SubSeq(updates', 1, Len(updates)) = updates
                  /\ updates'[Len(updates')].device_id = o.dev
                  /\ updates'[Len(updates')].status = "offline"
                  /\ updates'[Len(updates')].src = "sweep"
                  /\ devices' = devices
      ]_vars

\* a second tick has looked at a device the first tick marked offline: the
\* device is stored offline, one marker is in the log, nothing is in flight
C7_Witness ==
    \E d \in Known :
        /\ readCount = 0
        /\ LastSweep >= 2 * SweepPeriod
        /\ pending = {}
        /\ devices[d].status = "offline"
        /\ devices[d].basis = devices[d].last_seen
        /\ \E e \in eval : e.path = "sweep" /\ e.dev = d /\ ~e.logged
                             /\ e.stored = "offline"
        /\ Len(SelectSeq(RowsOf(d), LAMBDA r : r.src = "sweep")) = 1

----------------------------------------------------------------------------
(* The online transition on ingest *)

\* C8: a report ingested for a device stored "offline" emits one online
\* transition, and the lookup it rests on sees the status from before the
\* report's own overwrite of the row.
C8_OnlineEventBeforeOverwrite ==
    \A e \in eval :
        (e.path = "ingest" /\ e.was = "offline") => (e.logged /\ ~e.own)

----------------------------------------------------------------------------
(* GET /api/history, server.js:139-171 *)

\* parseInt(req.query.limit) || 100; the query is <<>> when it has no
\* limit and <<n>> when it has the limit n
DefaultLimit == 100
ParseLimit(q) == IF q = <<>> \/ q[1] = 0 THEN DefaultLimit ELSE q[1]

\* the results SELECT * FROM status_updates ORDER BY server_timestamp DESC
\* LIMIT ? may return: the rows with the latest timestamps, latest first,
\* rows of one timestamp in any order; a negative LIMIT returns every row
QueryHistory(limit) ==
    LET n == Len(updates)
        k == IF limit < 0 \/ limit > n THEN n ELSE limit
        ts(i) == updates[i].server_timestamp
    IN {[i \in 1..k |-> updates[f[i]]] :
          f \in {g \in [1..k -> 1..n] :
                   /\ \A i, j \in 1..k : g[i] = g[j] => i = j
                   /\ \A i \in 1..(k - 1) : ts(g[i]) >= ts(g[i + 1])
                   /\ \A j \in 1..n :
                        (\A i \in 1..k : g[i] # j) =>
                            \A i \in 1..k : ts(j) <= ts(g[i])}}

\* a stored row as the response carries it; an id is modelled by its text,
\* a prefix and digits, and a timestamp by its format and value
ReportEntry(r) ==
    [id |-> <<"", r.id>>, device_id |-> r.device_id, status |-> r.status,
     uptime_seconds |-> r.uptime_seconds, ip_address |-> r.ip_address,
     rssi |-> r.rssi, free_heap |-> r.free_heap, is_boot |-> r.is_boot,
     timestamp |-> r.timestamp,
     server_timestamp |-> <<"sqlite", r.server_timestamp>>]

\* new Date(x).getTime() of a timestamp of the response
Instant(ts) == IF ts[1] = "sqlite" THEN DateParse(ts[2]) ELSE ts[2]

\* a marker is added for a gap of exactly one minute too
GapExceedsOrEquals(current, next) ==
    (current - next) >= ThresholdMinutes * SecondsPerMinute * MsPerSecond

\* gapMinutes > 1, with gapMinutes = (current - next) / 1000 / 60
GapExceeds(current, next) ==
    (current - next) > ThresholdMinutes * SecondsPerMinute * MsPerSecond

\* current.getTime() - gapMinutes * 60 * 1000 / 2
MarkerTime(current, next) == current - (current - next) \div 2

\* the object pushed for the gap after rows[i]; i counts from 0
OfflineMarker(i, row, current, next) ==
    [id |-> <<"offline_", i>>, device_id |-> row.device_id,
     status |-> "offline",
     server_timestamp |-> <<"iso", MarkerTime(current, next)>>,
     is_offline_marker |-> TRUE]

\* the loop over rows[i], i counting from 0: processedRows from row i on
RECURSIVE ProcessRows(_, _)
ProcessRows(rows, i) ==
    IF i >= Len(rows) THEN <<>>
    ELSE LET current == DateParse(rows[i + 1].server_timestamp)
             next == DateParse(rows[i + 2].server_timestamp)
         IN <<ReportEntry(rows[i + 1])>>
            \o (IF i < Len(rows) - 1 /\ GapExceeds(current, next)
                THEN <<OfflineMarker(i, rows[i + 1], current, next)>>
                ELSE <<>>)
            \o ProcessRows(rows, i + 1)

\* a response that is sent in the order it was built
NotReversed(seq) == seq

\* processedRows.reverse()
Reverse(seq) == [i \in 1..Len(seq) |-> seq[Len(seq) + 1 - i]]

\* a handler that stores the markers it synthesizes
HistoryPersisting(q) ==
    /\ running
    /\ \E rows \in QueryHistory(ParseLimit(q)) :
          LET out == Reverse(ProcessRows(rows, 0))
          IN /\ hist' = [served |-> TRUE, code |-> 200, rows |-> rows,
                         out |-> out]
             /\ updates' = updates \o SelectSeq(out,
                    LAMBDA e : "is_offline_marker" \in DOMAIN e)
    /\ UNCHANGED <<now, nextSweep, devices, pending, log,
                   postCount, readCount, eval, resp>>
    /\ UNCHANGED <<ack, stats, running, faults>>

\* the handler: query, add the markers, reverse, respond
History(q) ==
    /\ running
    /\ \E rows \in QueryHistory(ParseLimit(q)) :
          hist' = [served |-> TRUE, code |-> 200, rows |-> rows,
                   out |-> Reverse(ProcessRows(rows, 0))]
    /\ UNCHANGED <<now, nextSweep, devices, updates, pending, log,
                   postCount, readCount, eval, resp>>
    /\ UNCHANGED <<ack, stats, running, faults>>

\* gaps, in seconds, between the reports of a stored history
HistoryGaps == {0, 1, 59, 60, 61, 240}
HistoryLimits == {<<>>} \cup {<<n>> : n \in -1..MaxRows}

\* a Report log of n rows: the first at second 0, each later row a gap
\* after the one before it; a row is a device's report or the synthetic
\* offline Report of a sweep tick
HistoryTable(n, devs, gaps, kinds) ==
    LET RECURSIVE At(_)
        At(i) == IF i = 1 THEN 0 ELSE At(i - 1) + gaps[i]
        body(i) == Report(IF devs[i] = "unknown" THEN Absent ELSE devs[i],
                          "online")
    IN [i \in 1..n |->
          IF kinds[i] = "report"
          THEN [id |-> i, device_id |-> devs[i], status |-> "online",
                uptime_seconds |-> 5, ip_address |-> "10.0.0.2",
                rssi |-> -60, free_heap |-> 1000, is_boot |-> 0,
                timestamp |-> 7, server_timestamp |-> At(i),
                src |-> "report", body |-> body(i)]
          ELSE [id |-> i, device_id |-> devs[i], status |-> "offline",
                uptime_seconds |-> 0, ip_address |-> "", rssi |-> 0,
                free_heap |-> 0, is_boot |-> 0,
                timestamp |-> DateParse(At(i)), server_timestamp |-> At(i),
                src |-> "sweep"]]

\* the sweep appends its row for a device whose latest row is a report a
\* minute old or more
SweepRowsFollowReports(table) ==
    \A i \in 1..Len(table) :
        table[i].src = "sweep" =>
            \E j \in 1..(i - 1) :
                /\ table[j].device_id = table[i].device_id
                /\ table[j].src = "report"
                /\ table[i].server_timestamp - table[j].server_timestamp
                      >= ThresholdMinutes * SecondsPerMinute
                /\ \A k \in (j + 1)..(i - 1) :
                      table[k].device_id # table[i].device_id

HistoryTables ==
    UNION {{t \in {HistoryTable(n, devs, gaps, kinds) :
                     devs \in [1..n -> Devices],
                     gaps \in [1..n -> HistoryGaps],
                     kinds \in [1..n -> {"report", "sweep"}]} :
              SweepRowsFollowReports(t)} :
           n \in 0..MaxRows}

\* the server with some history stored and nothing in flight
InitHistory ==
    /\ now = 0
    /\ nextSweep = SweepPeriod
    /\ devices = [d \in Devices |-> NoRow]
    /\ updates \in HistoryTables
    /\ pending = {}
    /\ log = [d \in Devices |-> [online |-> 0, offline |-> 0]]
    /\ postCount = 0
    /\ readCount = 0
    /\ eval = {}
    /\ resp = None
    /\ hist = NoHistory
    /\ ack = NoAck
    /\ stats = NoStats
    /\ running = TRUE
    /\ faults = {}

\* the query of the handler fails: its callback answers 500
FailHistory(q) ==
    /\ running
    /\ Cardinality(faults) < MaxFaults
    /\ faults' = faults \cup {[path |-> "history", id |-> 0, op |-> "select"]}
    /\ hist' = [served |-> FALSE, code |-> 500, rows |-> <<>>, out |-> <<>>]
    /\ UNCHANGED <<now, nextSweep, devices, updates, pending, log,
                   postCount, readCount, eval, resp, ack, stats, running>>

(* GET /api/stats, server.js:174-186 *)

\* an aggregate over no row is null, <<>>; over some rows a value, <<v>>
Min(values) == CHOOSE v \in values : \A w \in values : v <= w
Max(values) == CHOOSE v \in values : \A w \in values : v >= w

\* SELECT COUNT(*), MIN(server_timestamp), MAX(server_timestamp),
\* SUM(CASE WHEN is_boot = 1 THEN 1 ELSE 0 END) FROM status_updates, and the
\* response stats[0]
Stats ==
    /\ running
    /\ LET stamps == {updates[i].server_timestamp : i \in 1..Len(updates)}
           boots == {i \in 1..Len(updates) : updates[i].is_boot = 1}
       IN stats' = [code |-> 200,
                    total_updates |-> Len(updates),
                    first_seen |-> IF stamps = {} THEN <<>>
                                   ELSE <<Min(stamps)>>,
                    last_seen |-> IF stamps = {} THEN <<>>
                                  ELSE <<Max(stamps)>>,
                    boot_count |-> IF updates = <<>> THEN <<>>
                                   ELSE <<Cardinality(boots)>>]
    /\ UNCHANGED <<now, nextSweep, devices, updates, pending, log,
                   postCount, readCount, eval, resp, hist, ack, running,
                   faults>>

\* the query of the handler fails: its callback answers 500
FailStats ==
    /\ running
    /\ Cardinality(faults) < MaxFaults
    /\ faults' = faults \cup {[path |-> "stats", id |-> 0, op |-> "select"]}
    /\ stats' = [code |-> 500]
    /\ UNCHANGED <<now, nextSweep, devices, updates, pending, log,
                   postCount, readCount, eval, resp, hist, ack, running>>

NextHistory ==
    \/ \E q \in HistoryLimits : History(q)
    \/ \E q \in HistoryLimits : FailHistory(q)
    \/ Stats
    \/ FailStats

SpecHistory == InitHistory /\ [][NextHistory]_vars

IsMarker(e) == "is_offline_marker" \in DOMAIN e

\* positions of the response that hold the marker of the gap after rows[i]
MarkersOfGap(i) ==
    {k \in 1..Len(hist.out) :
        IsMarker(hist.out[k]) /\ hist.out[k].id = <<"offline_", i>>}

\* C9: for every adjacent pair (current, next) of the descending input one
\* marker is synthesized iff current - next is strictly more than a minute,
\* none otherwise; it has status "offline", is_offline_marker = true, the
\* device_id of current and the midpoint of the gap as its timestamp; so n
\* reports give at most n - 1 markers.
C9_MarkerRule ==
    hist.served =>
        LET R == hist.rows
            O == hist.out
            n == Len(R)
            markers == {k \in 1..Len(O) : IsMarker(O[k])}
        IN /\ \A i \in 1..(n - 1) :
                LET current == R[i].server_timestamp * 1000
                    next == R[i + 1].server_timestamp * 1000
                IN /\ Cardinality(MarkersOfGap(i - 1)) =
                         IF current - next > 60000 THEN 1 ELSE 0
                   /\ \A k \in MarkersOfGap(i - 1) :
                         /\ O[k].status = "offline"
                         /\ O[k].is_offline_marker = TRUE
                         /\ O[k].device_id = R[i].device_id
                         /\ O[k].server_timestamp[1] = "iso"
                         /\ 2 * O[k].server_timestamp[2] = current + next
           /\ markers = UNION {MarkersOfGap(i - 1) : i \in 1..(n - 1)}
           /\ Len(O) = n + Cardinality(markers)
           /\ n > 0 => Cardinality(markers) <= n - 1

\* a window with a gap of exactly one minute, which gets no marker, and a
\* longer gap, which gets one
C9_Witness ==
    /\ hist.served
    /\ Len(hist.rows) = 3
    /\ hist.rows[1].server_timestamp - hist.rows[2].server_timestamp = 61
    /\ hist.rows[2].server_timestamp - hist.rows[3].server_timestamp = 60
    /\ MarkersOfGap(0) # {}
    /\ MarkersOfGap(1) = {}

\* C10: the response is in chronological order, oldest first: the
\* timestamps never decrease along it, and every marker sits between the
\* two reports that bound its gap.
C10_Chronological ==
    hist.served =>
        LET O == hist.out
            at(k) == Instant(O[k].server_timestamp)
        IN /\ \A k \in 1..(Len(O) - 1) : at(k) <= at(k + 1)
           /\ \A k \in 1..Len(O) :
                IsMarker(O[k]) =>
                    /\ 1 < k /\ k < Len(O)
                    /\ ~IsMarker(O[k - 1]) /\ ~IsMarker(O[k + 1])
                    /\ at(k - 1) < at(k) /\ at(k) < at(k + 1)
                    /\ at(k + 1) - at(k - 1) > 60000

\* reports at minutes 0, 1 and 5 come back as 0, 1, marker at 3, 5
C10_Witness ==
    /\ hist.served
    /\ Len(hist.out) = 4
    /\ [k \in 1..4 |-> Instant(hist.out[k].server_timestamp)]
          = <<0, 60000, 180000, 300000>>
    /\ [k \in 1..4 |-> IsMarker(hist.out[k])] = <<FALSE, FALSE, TRUE, FALSE>>

----------------------------------------------------------------------------
(* Ingest of partial reports *)

\* a body with no field at all, {}
EmptyBody ==
    [device_id |-> Absent, status |-> Absent, uptime_seconds |-> <<>>,
     ip_address |-> Absent, rssi |-> <<>>, free_heap |-> <<>>,
     is_boot |-> <<>>, timestamp |-> <<>>]

\* a body whose every field is present and not the default
FullBody == [Report("esp32", "idle") EXCEPT !.is_boot = <<TRUE>>]

\* a body whose every field is present and falsy
FalsyBody ==
    [device_id |-> "", status |-> "", uptime_seconds |-> <<0>>,
     ip_address |-> "", rssi |-> <<0>>, free_heap |-> <<0>>,
     is_boot |-> <<FALSE>>, timestamp |-> <<0>>]

\* the bodies posted: empty, full, falsy, and one field alone, for a text
\* field, the boolean field and the field whose default is the clock
IngestBodies ==
    {EmptyBody, FullBody, FalsyBody}
        \cup {[EmptyBody EXCEPT ![f] = FullBody[f]] :
                 f \in {"device_id", "status", "is_boot", "timestamp"}}

\* the server receiving such bodies, with no GET request
NextIngest ==
    \/ Tick
    \/ \E body \in IngestBodies : Post(body)
    \/ \E o \in pending : ExecInsert(o)
    \/ \E o \in pending : ExecSelect(o)
    \/ \E o \in pending : ExecReplace(o)
    \/ \E o \in pending : ExecUpdate(o)
    \/ SweepQuery
    \/ \E o \in pending : ExecMarker(o)

SpecIngest == Init /\ [][NextIngest]_vars

\* a text field is missing when absent or empty, a number when absent or 0
MissingText(v) == v \in {Absent, ""}
MissingNumber(v) == v \in {<<>>, <<0>>}

\* the Report the contract promises for a body, but for its timestamp
Promised(b) ==
    [device_id |-> IF MissingText(b.device_id) THEN "unknown" ELSE b.device_id,
     status |-> IF MissingText(b.status) THEN "online" ELSE b.status,
     uptime_seconds |-> IF MissingNumber(b.uptime_seconds) THEN 0
                        ELSE b.uptime_seconds[1],
     ip_address |-> IF MissingText(b.ip_address) THEN "" ELSE b.ip_address,
     rssi |-> IF MissingNumber(b.rssi) THEN 0 ELSE b.rssi[1],
     free_heap |-> IF MissingNumber(b.free_heap) THEN 0 ELSE b.free_heap[1],
     is_boot |-> IF b.is_boot = <<TRUE>> THEN 1 ELSE 0]

ReportRows == SelectSeq(updates, LAMBDA r : r.src = "report")

\* C11: POST /api/status rejects no body: every request is answered
\* {success: true}, gives exactly one Report (appended, or its INSERT still
\* in flight) whose missing fields hold the defaults "unknown", "online",
\* 0, "", 0, 0, false and the time of the request, and creates or updates
\* the DeviceState of its device_id.
C11_NeverRejects ==
    /\ postCount > 0 =>
          ack = [id |-> postCount, code |-> 200, success |-> TRUE,
                 message |-> "Status received"]
    /\ Len(ReportRows)
          + Cardinality({o \in pending : o.op = "insert"}) = postCount
    /\ \A i \in 1..Len(ReportRows) :
          LET r == ReportRows[i]
              b == r.body
          IN /\ [f \in DOMAIN Promised(b) |-> r[f]] = Promised(b)
             /\ IF MissingNumber(b.timestamp)
                THEN /\ r.timestamp \in Times
                     /\ CurrentTimestamp(r.timestamp) <= r.server_timestamp
                ELSE r.timestamp = b.timestamp[1]
    /\ \A d \in Devices :
          (\E i \in 1..Len(ReportRows) : ReportRows[i].device_id = d)
              => \/ d \in Known
                 \/ \E o \in pending : o.op = "replace" /\ o.dev = d

\* the empty body, posted half a second after the start, is stored with
\* every default and has created the row of the device "unknown"
C11_Witness ==
    /\ pending = {}
    /\ ack.code = 200 /\ ack.success
    /\ "unknown" \in Known
    /\ devices["unknown"].status = "online"
    /\ \E i \in 1..Len(updates) :
          /\ updates[i].src = "report"
          /\ updates[i].body = EmptyBody
          /\ updates[i].device_id = "unknown"
          /\ updates[i].status = "online"
          /\ updates[i].is_boot = 0
          /\ updates[i].timestamp = 500

----------------------------------------------------------------------------
(* Storage failures *)

\* A statement run without a callback reports its failure as an 'error'
\* event on the statement (or database) object; nothing listens for it, so
\* the event is thrown and the process exits.  A statement or query with a
\* callback hands the error to the callback.

Fault(path, id, op) == [path |-> path, id |-> id, op |-> op]

\* stmt.run(...) of the report fails, server.js:65
FailInsert(o) ==
    /\ running
    /\ o \in pending /\ o.op = "insert"
    /\ Cardinality(faults) < MaxFaults
    /\ faults' = faults \cup {Fault("ingest", o.id, "insert")}
    /\ pending' = pending \ {o}
    /\ running' = FALSE
    /\ UNCHANGED <<now, nextSweep, devices, updates, log, postCount,
                   readCount, eval, resp, hist, ack, stats>>

\* the lookup of the stored status fails: err is set and nothing is logged
FailSelect(o) ==
    /\ running
    /\ o \in pending /\ o.op = "select"
    /\ Cardinality(faults) < MaxFaults
    /\ faults' = faults \cup {Fault("ingest", o.id, "select")}
    /\ pending' = pending \ {o}
    /\ UNCHANGED <<now, nextSweep, devices, updates, log, postCount,
                   readCount, eval, resp, hist, ack, stats, running>>

\* deviceStmt.run(...) fails, server.js:87
FailReplace(o) ==
    /\ running
    /\ o \in pending /\ o.op = "replace"
    /\ Cardinality(faults) < MaxFaults
    /\ faults' = faults \cup {Fault("ingest", o.id, "replace")}
    /\ pending' = pending \ {o}
    /\ running' = FALSE
    /\ UNCHANGED <<now, nextSweep, devices, updates, log, postCount,
                   readCount, eval, resp, hist, ack, stats>>

\* db.run(UPDATE ...) fails, server.js:115 and :209
FailUpdate(o) ==
    /\ running
    /\ o \in pending /\ o.op = "update"
    /\ Cardinality(faults) < MaxFaults
    /\ faults' = faults \cup {Fault(o.path, o.id, "update")}
    /\ pending' = pending \ {o}
    /\ running' = FALSE
    /\ UNCHANGED <<now, nextSweep, devices, updates, log, postCount,
                   readCount, eval, resp, hist, ack, stats>>

\* the query for the latest device fails, server.js:96-98
FailReadQuery ==
    /\ running
    /\ readCount < MaxReads
    /\ Cardinality(faults) < MaxFaults
    /\ readCount' = readCount + 1
    /\ faults' = faults \cup {Fault("read", readCount + 1, "devices")}
    /\ resp' = [path |-> "read", id |-> readCount + 1,
                status_of |-> "error", code |-> 500]
    /\ UNCHANGED <<now, nextSweep, devices, updates, pending, log,
                   postCount, eval, hist, ack, stats, running>>

\* the query for the latest update fails, server.js:123-125
FailLatest(o) ==
    /\ running
    /\ o \in pending /\ o.op = "latest"
    /\ Cardinality(faults) < MaxFaults
    /\ faults' = faults \cup {Fault("read", o.id, "latest")}
    /\ resp' = [path |-> "read", id |-> o.id,
                status_of |-> "error", code |-> 500]
    /\ pending' = pending \ {o}
    /\ UNCHANGED <<now, nextSweep, devices, updates, log, postCount,
                   readCount, eval, hist, ack, stats, running>>

\* a sweep tick whose failure to load the devices ends the process
FailSweepQueryFatal ==
    /\ running
    /\ now >= nextSweep
    /\ Cardinality(faults) < MaxFaults
    /\ nextSweep' = now + SweepPeriod
    /\ faults' = faults \cup {Fault("sweep", now, "devices")}
    /\ running' = FALSE
    /\ UNCHANGED <<now, devices, updates, pending, log, postCount,
                   readCount, eval, resp, hist, ack, stats>>

\* the timer fires and SELECT * FROM devices fails: the callback logs the
\* error and returns, server.js:196-199
FailSweepQuery ==
    /\ running
    /\ now >= nextSweep
    /\ Cardinality(faults) < MaxFaults
    /\ nextSweep' = now + SweepPeriod
    /\ faults' = faults \cup {Fault("sweep", now, "devices")}
    /\ UNCHANGED <<now, devices, updates, pending, log, postCount,
                   readCount, eval, resp, hist, ack, stats, running>>

\* the INSERT of the synthetic offline Report fails: its callback logs the
\* error, server.js:215-217
FailMarker(o) ==
    /\ running
    /\ o \in pending /\ o.op = "marker"
    /\ Cardinality(faults) < MaxFaults
    /\ faults' = faults \cup {Fault("sweep", o.id, "marker")}
    /\ pending' = pending \ {o}
    /\ UNCHANGED <<now, nextSweep, devices, updates, log, postCount,
                   readCount, eval, resp, hist, ack, stats, running>>

\* the server, one device reporting, with storage that may fail; once the
\* process has exited only time passes
NextFaulty ==
    \/ Tick
    \/ Post(Report("esp32", "online"))
    \/ \E o \in pending : ExecInsert(o)
    \/ \E o \in pending : ExecSelect(o)
    \/ \E o \in pending : ExecReplace(o)
    \/ \E o \in pending : ExecUpdate(o)
    \/ ReadQuery
    \/ \E o \in pending : ExecLatest(o)
    \/ SweepQuery
    \/ \E o \in pending : ExecMarker(o)
    \/ \E o \in pending : FailInsert(o)
    \/ \E o \in pending : FailSelect(o)
    \/ \E o \in pending : FailReplace(o)
    \/ \E o \in pending : FailUpdate(o)
    \/ FailReadQuery
    \/ \E o \in pending : FailLatest(o)
    \/ FailSweepQuery
    \/ \E o \in pending : FailMarker(o)

SpecFaulty == Init /\ [][NextFaulty]_vars

\* C12: whenever a storage read or write made for a POST /api/status or a
\* GET /api/status request fails, the response to that request is an HTTP
\* 500 and not a success, and the process is still running.
C12_FailureIs500 ==
    \A f \in faults :
        /\ f.path = "ingest" =>
              /\ running
              /\ ack.id = f.id => ack.code = 500
        /\ f.path = "read" =>
              /\ running
              /\ (resp.path = "read" /\ resp.id = f.id) => resp.code = 500

\* the sweep tick at time t failed to load the device list
TickFailed(f, t) == Fault("sweep", t, "devices") \in f

\* C18: a sweep tick that fails to load the device list changes no
\* DeviceState, appends no Report, issues no statement and logs no
\* transition; the process keeps running with the timer armed for the next
\* period, and the tick after a failed one evaluates the devices as any
\* tick does.
C18_FailedTickSkipped ==
    [][ /\ (TickFailed(faults', now) /\ ~TickFailed(faults, now)) =>
              /\ devices' = devices
              /\ updates' = updates
              /\ pending' = pending
              /\ log' = log
              /\ running'
              /\ nextSweep' = now + SweepPeriod
        /\ (nextSweep' # nextSweep /\ faults' = faults
               /\ TickFailed(faults, LastSweep)) =>
              /\ pending' = pending \cup UNION {SweepStatements(d, now) :
                                                  d \in StoredOnlineStale}
              /\ log' = Logged(log, "offline", StoredOnlineStale)
              /\ devices' = devices
              /\ updates' = updates
      ]_vars

\* the tick at one minute failed and the tick at two minutes has marked
\* the silent device offline and appended its synthetic Report
C18_Witness ==
    /\ running
    /\ TickFailed(faults, SweepPeriod)
    /\ LastSweep = 2 * SweepPeriod
    /\ pending = {}
    /\ devices["esp32"].status = "offline"
    /\ devices["esp32"].basis = devices["esp32"].last_seen
    /\ log["esp32"].offline = 1
    /\ \E i \in 1..Len(updates) :
          /\ updates[i].src = "sweep"
          /\ updates[i].timestamp = 2 * SweepPeriod

----------------------------------------------------------------------------
(* The DeviceState row *)

\* the statements that complete in a step
Completed == pending \ pending'

\* C13: last_seen of every device never decreases: the INSERT OR REPLACE
\* of a report sets it to the server's current time, and no other step,
\* of the read path or of the sweep (its UPDATE, its synthetic Report),
\* changes it; a row, once created, stays.
C13_LastSeenMonotonic ==
    [][ \A d \in Devices :
          /\ devices[d] # NoRow =>
                /\ devices'[d] # NoRow
                /\ devices'[d].last_seen >= devices[d].last_seen
          /\ (\E o \in Completed : o.op = "replace" /\ o.dev = d) =>
                devices'[d].last_seen = CurrentTimestamp(now)
          /\ (~ \E o \in Completed : o.op = "replace" /\ o.dev = d) =>
                \/ devices'[d] = NoRow /\ devices[d] = NoRow
                \/ /\ devices'[d] # NoRow /\ devices[d] # NoRow
                   /\ devices'[d].last_seen = devices[d].last_seen
      ]_vars

\* a device that reported at the start and again a minute later, and was
\* then marked offline: last_seen is the second report's, untouched
C13_Witness ==
    \E d \in Known :
        /\ devices[d].by = 2
        /\ devices[d].last_seen = SecondsPerMinute
        /\ devices[d].status = "offline"
        /\ devices[d].basis = SecondsPerMinute
        /\ now = 2 * SweepPeriod

\* C14: the status stored in every DeviceState row is "online" or
\* "offline".
C14_StatusTag ==
    \A d \in Known : devices[d].status \in {"online", "offline"}

----------------------------------------------------------------------------
(* What GET /api/status writes *)

\* the stored columns of a devices row
Stored(row) == IF row = NoRow THEN NoRow
               ELSE [status |-> row.status, last_seen |-> row.last_seen]

\* the frame of the read path: the request and its two queries write
\* nothing, and its UPDATE leaves the Report log, every other device and
\* last_seen alone and stores "offline" for the device it was issued for
ReadFrame ==
    [][ /\ readCount' # readCount => (devices' = devices /\ updates' = updates)
        /\ \A o \in Completed :
              /\ o.op = "latest" => (devices' = devices /\ updates' = updates)
              /\ (o.op = "update" /\ o.path = "read") =>
                    /\ updates' = updates
                    /\ \A d \in Devices \ {o.dev} : devices'[d] = devices[d]
                    /\ Stored(devices'[o.dev]) =
                          [Stored(devices[o.dev]) EXCEPT !.status = "offline"]
      ]_vars

\* C16: GET /api/status writes nothing but the stored status of the device
\* it selected, which it changes from "online" to "offline"; it appends no
\* Report, changes no last_seen and no other device.
C16_ReadWritesOnlineToOffline ==
    [][ \A o \in Completed :
          (o.op = "update" /\ o.path = "read") =>
              /\ updates' = updates
              /\ \A d \in Devices \ {o.dev} : devices'[d] = devices[d]
              /\ \/ Stored(devices'[o.dev]) = Stored(devices[o.dev])
                 \/ /\ devices[o.dev].status = "online"
                    /\ Stored(devices'[o.dev]) =
                          [Stored(devices[o.dev]) EXCEPT !.status = "offline"]
      ]_vars

----------------------------------------------------------------------------
(* What GET /api/history writes and how its entries are told apart *)

\* C15: GET /api/history writes nothing: the Report log, every DeviceState
\* and the statements in flight are as before the request, no marker of
\* the response is a stored row and every other entry is one, so a second
\* request with no write in between reads the same stored Reports.
C15_HistoryPureRead ==
    [][ hist' # hist =>
          /\ updates' = updates
          /\ devices' = devices
          /\ pending' = pending
          /\ \A k \in 1..Len(hist'.out) :
                LET e == hist'.out[k]
                IN IF IsMarker(e)
                   THEN \A i \in 1..Len(updates') :
                            <<"", updates'[i].id>> # e.id
                   ELSE \E i \in 1..Len(updates') :
                            ReportEntry(updates'[i]) = e
          /\ \A q \in HistoryLimits :
                QueryHistory(ParseLimit(q))' = QueryHistory(ParseLimit(q))
      ]_vars

\* a response with two markers over a log that still has its three rows
C15_Witness ==
    /\ hist.served
    /\ Len(updates) = 3
    /\ Len(hist.out) = 5
    /\ Cardinality({k \in 1..5 : IsMarker(hist.out[k])}) = 2

\* C17: in every response each marker carries is_offline_marker = true and
\* an id no other entry of the response has, and every entry without the
\* flag is a report a device submitted, not a synthetic one.
C17_MarkersDistinguishable ==
    hist.served =>
        LET O == hist.out
        IN /\ \A k \in 1..Len(O) :
                IsMarker(O[k]) =>
                    /\ O[k].is_offline_marker = TRUE
                    /\ \A j \in 1..Len(O) : j # k => O[j].id # O[k].id
           /\ \A k \in 1..Len(O) :
                ~IsMarker(O[k]) => updates[O[k].id[2]].src = "report"
====
